---- MODULE Spec2Model ----
(***************************************************************************)
(* A model of the CryptoETF index-fund manager: IndexFund (index_fund.py)  *)
(* driving a BinanceClient (binance_client.py), called through main        *)
(* (execute_index_fund.py) or directly.                                    *)
(*                                                                         *)
(* Python strings are sequences of tokens (<<"BTC", "UP">> is "BTCUP"), so *)
(* that concatenation, prefix/suffix tests and split are computed.  Python *)
(* floats are exact rationals [n, d] in lowest terms with d > 0.           *)
(***************************************************************************)
EXTENDS Integers, Sequences, FiniteSets, TLC

\* ------------------------------------------------------------------ bounds
\* weights given by a caller range over 0..MaxWeight
MaxWeight == 2
\* a filled order realizes FillUnit, 2 * FillUnit, ... or MaxFill * FillUnit
MaxFill == 2
FillUnit == 400
\* the clock of a run reads StartTime seconds or later; between two calls it
\* moves on by TickSeconds, at most MaxTicks times
StartTime == 1000
TickSeconds == 15
MaxTicks == 2

\* ------------------------------------------------------- program constants
BASE_SYMBOLS_KEPT == 5
IGNORE_SMALL_AMOUNTS == 20
TIMEOUT_BW_CALLS == 30

\* --------------------------------------------------------------- rationals
RECURSIVE Gcd(_, _)
Gcd(a, b) == IF b = 0 THEN a ELSE Gcd(b, a % b)

Abs(x) == IF x < 0 THEN -x ELSE x

\* n/d in lowest terms, d > 0 (callers never pass d = 0)
Rat(n, d) ==
    LET g == Gcd(Abs(n), Abs(d))
        s == IF d < 0 THEN -1 ELSE 1
    IN  [n |-> s * (n \div g), d |-> s * (d \div g)]

Int2Rat(k) == [n |-> k, d |-> 1]
Zero == Int2Rat(0)
One == Int2Rat(1)

RAdd(a, b) == Rat(a.n * b.d + b.n * a.d, a.d * b.d)
RSub(a, b) == Rat(a.n * b.d - b.n * a.d, a.d * b.d)
RMul(a, b) == Rat(a.n * b.n, a.d * b.d)
\* a / b, for b # 0
RDiv(a, b) == Rat(a.n * b.d, a.d * b.n)
RNeg(a) == [n |-> -a.n, d |-> a.d]
RLt(a, b) == a.n * b.d < b.n * a.d
RLe(a, b) == a.n * b.d <= b.n * a.d

\* FEE = 0.1 * 0.01
FEE == Rat(1, 1000)

\* --------------------------------------------------------------- sequences

Range(s) == {s[i] : i \in DOMAIN s}

Map1(s, F(_)) == [i \in DOMAIN s |-> F(s[i])]

RECURSIVE RSum(_)
\* sum(...) of a sequence of rationals
RSum(s) == IF s = <<>> THEN Zero ELSE RAdd(Head(s), RSum(Tail(s)))

\* zip(a, b): as long as the shorter one
ZipLen(a, b) == IF Len(a) < Len(b) THEN Len(a) ELSE Len(b)

\* ----------------------------------------------------------------- strings
\* the tokens of the model's alphabet, in the order Python compares them
Alphabet == <<"BTC", "DAI", "DOWN", "ETH", "UP", "USDT", "XRP", "ZZZ">>

TokRank(t) == CHOOSE i \in DOMAIN Alphabet : Alphabet[i] = t

RECURSIVE StrLess(_, _)
\* a < b on strings
StrLess(a, b) ==
    IF b = <<>> THEN FALSE
    ELSE IF a = <<>> THEN TRUE
    ELSE IF Head(a) = Head(b) THEN StrLess(Tail(a), Tail(b))
    ELSE TokRank(Head(a)) < TokRank(Head(b))

\* x.startswith(p)
StartsWith(x, p) == Len(p) <= Len(x) /\ SubSeq(x, 1, Len(p)) = p
\* x.endswith(p)
EndsWith(x, p) == Len(p) <= Len(x) /\ SubSeq(x, Len(x) - Len(p) + 1, Len(x)) = p
\* direction in x, for a one-token direction
Contains(x, tok) == \E i \in DOMAIN x : x[i] = tok
\* x.split(tok)[0]
SplitHead(x, tok) ==
    LET i == CHOOSE k \in DOMAIN x : x[k] = tok /\ \A j \in 1..(k - 1) : x[j] # tok
    IN  SubSeq(x, 1, i - 1)
\* ''.join(x.split(tok))
SplitJoin(x, tok) == SelectSeq(x, LAMBDA t : t # tok)

BTC == <<"BTC">>
ETH == <<"ETH">>
XRP == <<"XRP">>
USDT == <<"USDT">>
DAI == <<"DAI">>
ZZZ == <<"ZZZ">>
BTCUP == <<"BTC", "UP">>
BTCDOWN == <<"BTC", "DOWN">>
ETHUP == <<"ETH", "UP">>


\* ------------------------------------------------------------ Python values
\* the outcome of a call that may raise: err = "" when it returned val
Ok(v) == [err |-> "", val |-> v]
Raised(e, v) == [err |-> e, val |-> v]

\* min(S) of a non-empty set of integers
Min(S) == CHOOSE k \in S : \A j \in S : k <= j

\* a Holding (symbol, usd_value) of a portfolio list
Holding(s, v) == [sym |-> s, val |-> v]

Symbols(portfolio) == Map1(portfolio, LAMBDA x : x.sym)
Values(portfolio) == Map1(portfolio, LAMBDA x : x.val)

RECURSIVE InsertBySym(_, _)
InsertBySym(sorted, x) ==
    IF sorted = <<>> THEN <<x>>
    ELSE IF StrLess(x.sym, Head(sorted).sym) THEN <<x>> \o sorted
    ELSE <<Head(sorted)>> \o InsertBySym(Tail(sorted), x)

\* a variant of SortBySym that leaves the list as it is
Unsorted(p) == p

RECURSIVE SortBySym(_)
\* sorted(portfolio, key=lambda x: x[0]): stable, ascending by symbol
SortBySym(p) ==
    IF p = <<>> THEN <<>>
    ELSE InsertBySym(SortBySym(SubSeq(p, 1, Len(p) - 1)), p[Len(p)])

RECURSIVE InsertByValDesc(_, _)
InsertByValDesc(sorted, x) ==
    IF sorted = <<>> THEN <<x>>
    ELSE IF RLt(Head(sorted).val, x.val) THEN <<x>> \o sorted
    ELSE <<Head(sorted)>> \o InsertByValDesc(Tail(sorted), x)

RECURSIVE SortByValDesc(_)
\* sorted(portfolio, key=lambda x: x[1], reverse=True): stable, descending by value
SortByValDesc(p) ==
    IF p = <<>> THEN <<>>
    ELSE InsertByValDesc(SortByValDesc(SubSeq(p, 1, Len(p) - 1)), p[Len(p)])

\* ------------------------------------------------------------ BinanceClient
\* A client c is the record built by NewClient:
\*   all_symbols   the assets of the account, in the exchange's order
\*   all_pairs     pair |-> price (a function on the set of tradeable pairs)
\*   full_balance  <<[asset, free], ...>>
\*   min_notional, min_qty   the MIN_NOTIONAL / LOT_SIZE filters of the pairs
\*   base_symbols  the ranked settlement candidates

PairCount(all_pairs, sym) == Cardinality({p \in DOMAIN all_pairs : EndsWith(p, sym)})

RECURSIVE InsertByCountDesc(_, _, _)
InsertByCountDesc(all_pairs, sorted, x) ==
    IF sorted = <<>> THEN <<x>>
    ELSE IF PairCount(all_pairs, Head(sorted)) < PairCount(all_pairs, x) THEN <<x>> \o sorted
    ELSE <<Head(sorted)>> \o InsertByCountDesc(all_pairs, Tail(sorted), x)

RECURSIVE SortByCountDesc(_, _)
SortByCountDesc(all_pairs, s) ==
    IF s = <<>> THEN <<>>
    ELSE InsertByCountDesc(all_pairs, SortByCountDesc(all_pairs, SubSeq(s, 1, Len(s) - 1)),
                           s[Len(s)])

\* base_symbols[:5]
Top(ranked) ==
    SubSeq(ranked, 1, IF Len(ranked) < BASE_SYMBOLS_KEPT THEN Len(ranked)
                      ELSE BASE_SYMBOLS_KEPT)

\* the symbols that end at least one pair, most pairs first, the top five
BaseSymbols(all_symbols, all_pairs) ==
    Top(SortByCountDesc(all_pairs,
                        SelectSeq(all_symbols, LAMBDA sym : PairCount(all_pairs, sym) > 0)))

NewClient(all_pairs, full_balance, min_notional, min_qty) ==
    [all_symbols |-> Map1(full_balance, LAMBDA x : x.asset),
     all_pairs |-> all_pairs,
     full_balance |-> full_balance,
     min_notional |-> min_notional,
     min_qty |-> min_qty,
     base_symbols |-> BaseSymbols(Map1(full_balance, LAMBDA x : x.asset), all_pairs)]

\* self.balance: free > 0 and some pair starts with the asset
Balance(c) ==
    SelectSeq(c.full_balance,
              LAMBDA x : /\ RLt(Zero, x.free)
                         /\ \E y \in DOMAIN c.all_pairs : StartsWith(y, x.asset))

GetPairPrice(c, sym1, sym2) ==
    IF sym1 \o sym2 \in DOMAIN c.all_pairs THEN Ok(c.all_pairs[sym1 \o sym2])
    ELSE IF sym2 \o sym1 \in DOMAIN c.all_pairs
         THEN Ok(RDiv(One, c.all_pairs[sym2 \o sym1]))
    ELSE Raised("pair not found", Zero)

\* price_wrt_base * __getPairPrice(price_base, base) of line 126
PriceVia(price_wrt_base, hop) ==
    IF hop.err # "" THEN hop ELSE Ok(RMul(price_wrt_base.val, hop.val))

\* the loop of __getPriceWrt and its return (lines 113-126): quotes[i] prices the
\* symbol in tries[i]
FirstPrice(c, base, tries, quotes) ==
    LET hits == {i \in DOMAIN tries : quotes[i].err = ""}
    IN  IF hits = {}
        THEN \* price_wrt_base is None: None * ... is a TypeError
             Raised("TypeError", Zero)
        ELSE IF base = tries[Min(hits)] THEN quotes[Min(hits)]
        ELSE PriceVia(quotes[Min(hits)], GetPairPrice(c, tries[Min(hits)], base))

\* __getPriceWrt: the first of [base] + base_symbols that prices the symbol
GetPriceWrt(c, symbol, base) ==
    IF base \notin Range(c.base_symbols) THEN Raised("base currency not found", Zero)
    ELSE IF symbol \notin Range(c.all_symbols) THEN Raised("symbol not found", Zero)
    ELSE FirstPrice(c, base, <<base>> \o c.base_symbols,
                    [i \in 1..(Len(c.base_symbols) + 1) |->
                        GetPairPrice(c, symbol, (<<base>> \o c.base_symbols)[i])])

getPairPrice(c, symbol, base) ==
    IF symbol = base THEN Ok(One) ELSE GetPriceWrt(c, symbol, base)

getUsdSymbol == USDT

\* the list comprehension of getPortfolioUsd; it raises what the first failing price raises
PortfolioUsd(pairs, price) ==
    LET bad == {i \in DOMAIN pairs : price[i].err # ""}
    IN  IF bad # {} THEN Raised(price[Min(bad)].err, <<>>)
        ELSE Ok([i \in DOMAIN pairs |->
                    Holding(pairs[i].asset, RMul(pairs[i].free, price[i].val))])

\* getPortfolioUsd over (asset, free) pairs
getPortfolioUsd(c, pairs) ==
    PortfolioUsd(pairs, [i \in DOMAIN pairs |-> GetPriceWrt(c, pairs[i].asset, getUsdSymbol)])

\* the sort and the ignore_small_amounts filter of getBalanceUsd (lines 141-146)
LargestFirst(balance_usd) ==
    IF balance_usd.err # "" THEN balance_usd
    ELSE Ok(SelectSeq(SortByValDesc(balance_usd.val),
                      LAMBDA x : RLt(Int2Rat(IGNORE_SMALL_AMOUNTS), x.val)))

getBalanceUsd(c) == LargestFirst(getPortfolioUsd(c, Balance(c)))

\* the symbols of the list without a direct pair with base_currency
MissingCurrencies(c, symbols, base_currency) ==
    SelectSeq(symbols, LAMBDA x : /\ x \o base_currency \notin DOMAIN c.all_pairs
                                  /\ x # base_currency)

RECURSIVE BestBase(_, _, _, _, _)
\* the loop of findBaseCurrency over base_symbols[k..]; best = <<>> stands for None
BestBase(c, symbols, k, min_missing, best) ==
    IF k > Len(c.base_symbols) THEN best
    ELSE IF Len(MissingCurrencies(c, symbols, c.base_symbols[k])) < min_missing
    THEN BestBase(c, symbols, k + 1,
                  Len(MissingCurrencies(c, symbols, c.base_symbols[k])), c.base_symbols[k])
    ELSE BestBase(c, symbols, k + 1, min_missing, best)

\* the end of findBaseCurrency (lines 263-268)
BaseAndMissing(c, symbols, best) ==
    IF best = <<>> /\ symbols # <<>>
    THEN \* x + None in the missing_currencies filter
         Raised("TypeError", [base |-> <<>>, missing |-> <<>>])
    ELSE Ok([base |-> best, missing |-> MissingCurrencies(c, symbols, best)])

\* findBaseCurrency(portfolio): val = [base, missing]
findBaseCurrency(c, portfolio) ==
    BaseAndMissing(c, Symbols(portfolio),
                   BestBase(c, Symbols(portfolio), 1, Len(portfolio), <<>>))

getSupportedPortfolio(c, portfolio) ==
    SelectSeq(portfolio,
              LAMBDA x : \E i \in DOMAIN c.base_symbols :
                            x.sym \o c.base_symbols[i] \in DOMAIN c.all_pairs)

\* __getLeveragedCurrencies(direction), as a set
LeveragedCurrencies(c, direction) ==
    {SplitHead(x, direction) : x \in {y \in DOMAIN c.all_pairs :
                                        /\ Contains(y, direction)
                                        /\ SplitJoin(y, direction) \in DOMAIN c.all_pairs}}

\* a variant of getLeveragedCurrencies that asks for one direction only
LeveragedEitherWay(c) == LeveragedCurrencies(c, "UP") \cup LeveragedCurrencies(c, "DOWN")

getLeveragedCurrencies(c) == LeveragedCurrencies(c, "UP") \cap LeveragedCurrencies(c, "DOWN")

GetLeveragedSymbol(c, symbol, side) ==
    IF symbol \notin Range(c.all_symbols) THEN Raised("symbol not supported", <<>>)
    ELSE IF symbol \notin getLeveragedCurrencies(c) THEN Raised("cannot be leveraged", <<>>)
    ELSE Ok(symbol \o <<side>>)

getBullSymbol(c, symbol) == GetLeveragedSymbol(c, symbol, "UP")
getBearSymbol(c, symbol) == GetLeveragedSymbol(c, symbol, "DOWN")

\* What the exchange answers to a live market order: no order at all, an order
\* that is still not FILLED when the wait ends, or the fills of a FILLED one.
Fills == {Int2Rat(k * FillUnit) : k \in 1..MaxFill}
Replies == {[status |-> "None", traded |-> Zero], [status |-> "NEW", traded |-> Zero]}
           \cup {[status |-> "FILLED", traded |-> f] : f \in Fills}

Placed(e, v, placed) == [err |-> e, val |-> v, placed |-> placed]

\* a variant of PlaceAt that hands the order to the exchange in a dry run too
PlaceAtAnyRun(c, quant, price, live_run, reply) ==
    IF price.err # "" THEN Placed(price.err, Zero, FALSE)
    ELSE IF RLt(RDiv(quant, price.val), c.min_qty) THEN Placed("", Zero, FALSE)
    ELSE IF reply.status = "None" THEN Placed("Placing the order failed", Zero, TRUE)
    ELSE IF reply.status # "FILLED" THEN Placed("Order did not fill itself", Zero, TRUE)
    ELSE Placed("", reply.traded, TRUE)

\* __placeOrder from the price on (lines 186-232)
PlaceAt(c, quant, price, live_run, reply) ==
    IF price.err # "" THEN Placed(price.err, Zero, FALSE)
    ELSE IF RLt(RDiv(quant, price.val), c.min_qty) THEN Placed("", Zero, FALSE)
    ELSE IF ~live_run THEN Placed("", Zero, FALSE)
    ELSE IF reply.status = "None" THEN Placed("Placing the order failed", Zero, TRUE)
    ELSE IF reply.status # "FILLED" THEN Placed("Order did not fill itself", Zero, TRUE)
    ELSE Placed("", reply.traded, TRUE)

\* __placeOrder from the minimum notional on (lines 180-232)
PlaceAfterFee(c, symbol, base, quant, live_run, reply) ==
    IF RLt(quant, c.min_notional) THEN Placed("", Zero, FALSE)
    ELSE PlaceAt(c, quant, GetPriceWrt(c, symbol, base), live_run, reply)

\* __placeOrder: [err, val, placed]; placed says create_order was called
placeOrder(c, symbol, base, quant, live_run, reply) ==
    IF symbol \o base \notin DOMAIN c.all_pairs
    THEN Placed("Pair to trade is not available on the exchange", Zero, FALSE)
    ELSE PlaceAfterFee(c, symbol, base, RMul(quant, RSub(One, FEE)), live_run, reply)

sellOrder(c, symbol, base, quant, live_run, reply) ==
    placeOrder(c, symbol, base, quant, live_run, reply)

buyOrder(c, symbol, base, quant, live_run, reply) ==
    placeOrder(c, symbol, base, quant, live_run, reply)

\* ---------------------------------------------------------------- IndexFund
getTotalWorthPortfolio(portfolio) == RSum(Values(portfolio))

\* for bc, ba in source_portfolio: exactly one holding of bc, of at least ba
Covered(current_portfolio, h) ==
    Cardinality({i \in DOMAIN current_portfolio :
                    /\ current_portfolio[i].sym = h.sym
                    /\ RLe(h.val, current_portfolio[i].val)}) = 1

\* __createPortfolioFromSource after getCurrentPortfolio (lines 176-190)
PortfolioFromSource(balance, source_currencies, source_amount) ==
    LET current_portfolio ==
            SelectSeq(balance.val, LAMBDA x : x.sym \in Range(source_currencies))
        source_portfolio ==
            [i \in 1..ZipLen(source_currencies, source_amount) |->
                Holding(source_currencies[i], source_amount[i])]
    IN  IF balance.err # "" \/ Len(source_currencies) = 0 THEN balance
        ELSE IF Len(source_amount) = 0 THEN Ok(current_portfolio)
        ELSE IF Len(source_amount) # Len(source_currencies) THEN Raised("AssertionError", <<>>)
        ELSE IF \E i \in DOMAIN source_portfolio :
                    ~Covered(current_portfolio, source_portfolio[i])
             THEN Raised("Given base amount exceeds the amount in wallet", <<>>)
        ELSE Ok(source_portfolio)

\* __createPortfolioFromSource: err = "" and val the portfolio, or what it raises
createPortfolioFromSource(c, source_currencies, source_amount) ==
    PortfolioFromSource(getBalanceUsd(c), source_currencies, source_amount)

\* a variant of NormalizeWeight that divides by the number of weights
NormalizeByLength(weight) ==
    IF weight # <<>> /\ RSum(weight) = Zero THEN Raised("ZeroDivisionError", <<>>)
    ELSE Ok(Map1(weight, LAMBDA x : RDiv(x, Int2Rat(Len(weight)))))

\* a variant of NormalizeWeight that lets an all-zero vector through
NormalizeUnchecked(weight) ==
    IF weight # <<>> /\ RSum(weight) = Zero THEN Ok(weight)
    ELSE Ok(Map1(weight, LAMBDA x : RDiv(x, RSum(weight))))

\* weight = [x / sum(weight) for x in weight]
NormalizeWeight(weight) ==
    IF weight # <<>> /\ RSum(weight) = Zero THEN Raised("ZeroDivisionError", <<>>)
    ELSE Ok(Map1(weight, LAMBDA x : RDiv(x, RSum(weight))))

\* portfolio = [(x, total_value * w) for x, w in zip(portfolio, weight)]
WeightedPortfolio(portfolio, weight, total_value) ==
    [i \in 1..ZipLen(portfolio, weight) |-> Holding(portfolio[i], RMul(total_value, weight[i]))]

\* if target not in current, add dummy (lines 108-113)
Padded(target_portfolio, current_portfolio) ==
    current_portfolio \o
    Map1(SelectSeq(target_portfolio,
                   LAMBDA x : x.sym \notin Range(Symbols(current_portfolio))),
         LAMBDA x : Holding(x.sym, Zero))

\* if current not in target, liquidate (lines 116-117)
Absent(target_portfolio, padded) ==
    SelectSeq(padded, LAMBDA x : x.sym \notin Range(Symbols(target_portfolio)))

\* remove liquidated currencies from current (lines 120-122)
Kept(padded, absent) == SelectSeq(padded, LAMBDA x : x \notin Range(absent))

\* diff_portfolio of the sorted portfolios (lines 128-131)
DiffPortfolio(target, current) ==
    [i \in 1..ZipLen(target, current) |->
        Holding(target[i].sym, RSub(target[i].val, current[i].val))]

\* a variant of DiffSets that invests the zero deltas too
DiffSetsKeepZero(absent, target, current, diff_portfolio) ==
    [target |-> target,
     current |-> current,
     diff_portfolio |-> diff_portfolio,
     liquidate_portfolio |->
        absent \o Map1(SelectSeq(diff_portfolio, LAMBDA x : RLt(x.val, Zero)),
                       LAMBDA x : Holding(x.sym, RNeg(x.val))),
     invest_portfolio |-> SelectSeq(diff_portfolio, LAMBDA x : RLe(Zero, x.val))]

\* filter portfolio to be liquidated or to be invested (lines 134-138)
DiffSets(absent, target, current, diff_portfolio) ==
    [target |-> target,
     current |-> current,
     diff_portfolio |-> diff_portfolio,
     liquidate_portfolio |->
        absent \o Map1(SelectSeq(diff_portfolio, LAMBDA x : RLt(x.val, Zero)),
                       LAMBDA x : Holding(x.sym, RNeg(x.val))),
     invest_portfolio |-> SelectSeq(diff_portfolio, LAMBDA x : RLt(Zero, x.val))]

\* the diff of the sorted portfolios (lines 124-138)
DiffSorted(absent, target, current) ==
    DiffSets(absent, target, current, DiffPortfolio(target, current))

\* lines 116-138, on the current portfolio with its dummies
DifferPadded(target_portfolio, padded, absent) ==
    DiffSorted(absent, SortBySym(target_portfolio), SortBySym(Kept(padded, absent)))

\* The Differ of __updatePortfolio (lines 108-138), on the supported target.
Differ(target_portfolio, current_portfolio) ==
    DifferPadded(target_portfolio, Padded(target_portfolio, current_portfolio),
                 Absent(target_portfolio, Padded(target_portfolio, current_portfolio)))

\* a trade ((symbol, base_currency), quant)
Trade(s, b, q) == [sym |-> s, base |-> b, quant |-> q]

NoTrades == [err |-> "", calls |-> <<>>, base |-> <<>>, missing |-> <<>>,
             liquidate_trades |-> <<>>, invest_trades |-> <<>>]

\* portfolio_to_trades, after the missing currencies are dropped (lines 74-80)
PortfolioToTrades(portfolio, missing_currencies, base_currency, base_price) ==
    Map1(SelectSeq(portfolio, LAMBDA x : x.sym \notin Range(missing_currencies)),
         LAMBDA x : Trade(x.sym, base_currency, RDiv(x.val, base_price)))

\* __createTrades from the base price on (lines 77-85)
TradesAt(liquidate_portfolio, invest_portfolio, found, base_price) ==
    IF base_price.err # ""
    THEN [NoTrades EXCEPT !.err = base_price.err,
                          !.calls = <<"findBaseCurrency", "getUsdSymbol", "getPairPrice">>]
    ELSE [err |-> "",
          calls |-> <<"findBaseCurrency", "getUsdSymbol", "getPairPrice">>,
          base |-> found.base,
          missing |-> found.missing,
          liquidate_trades |->
              PortfolioToTrades(liquidate_portfolio, found.missing, found.base,
                                base_price.val),
          invest_trades |->
              PortfolioToTrades(invest_portfolio, found.missing, found.base,
                                base_price.val)]

\* __createTrades from the base currency on (lines 70-85)
TradesOn(c, liquidate_portfolio, invest_portfolio, found) ==
    IF found.err # ""
    THEN [NoTrades EXCEPT !.err = found.err, !.calls = <<"findBaseCurrency">>]
    ELSE TradesAt(liquidate_portfolio, invest_portfolio, found.val,
                  getPairPrice(c, found.val.base, getUsdSymbol))

\* __createTrades: [err, calls, base, missing, liquidate_trades, invest_trades]
createTrades(c, liquidate_portfolio, invest_portfolio) ==
    IF Len(liquidate_portfolio) = 0 /\ Len(invest_portfolio) = 0 THEN NoTrades
    ELSE TradesOn(c, liquidate_portfolio, invest_portfolio,
                  findBaseCurrency(c, liquidate_portfolio \o invest_portfolio))

\* __executeTrades splits the trades: self trades name their own base currency
SelfTrades(trades) == SelectSeq(trades, LAMBDA x : x.sym = x.base)
NonSelfTrades(trades) == SelectSeq(trades, LAMBDA x : x.sym # x.base)
Quants(trades) == Map1(trades, LAMBDA x : x.quant)

\* the amount __executeTrades adds to what tradeFunc returned (line 48)
SelfTradesAmount(trades) == RSum(Quants(NonSelfTrades(trades)))

\* x[1] / amount_required * liquidated_amount (line 153)
Rescaled(invest_trades, amount_required, liquidated_amount) ==
    Map1(invest_trades,
         LAMBDA x : Trade(x.sym, x.base,
                          RMul(RDiv(x.quant, amount_required), liquidated_amount)))

\* invest_trades rescaled to the liquidated amount (lines 152-154), amount_required # 0
RescaleTrades(invest_trades, liquidated_amount) ==
    Rescaled(invest_trades, RSum(Quants(invest_trades)), liquidated_amount)

\* ------------------------------------------------------- the entry points
\* What an entry point has computed when it raises, returns early, or is
\* about to execute trades (outcome = "raise" | "return" | "update").
EmptyDiff == [target |-> <<>>, current |-> <<>>, diff_portfolio |-> <<>>,
              liquidate_portfolio |-> <<>>, invest_portfolio |-> <<>>]

NoPlan == [outcome |-> "none", err |-> "", calls |-> <<>>, waited |-> FALSE,
           lev_source |-> <<>>, lev_target |-> <<>>,
           current_portfolio |-> <<>>, total_value |-> Zero,
           portfolio |-> <<>>, weight |-> <<>>, normalized |-> FALSE,
           target_portfolio |-> <<>>, built |-> FALSE,
           supported_portfolio |-> <<>>, differed |-> FALSE, diff |-> EmptyDiff,
           trades |-> NoTrades]

Raise(plan, e) == [plan EXCEPT !.outcome = "raise", !.err = e]
ReturnNone(plan) == [plan EXCEPT !.outcome = "return"]
Called(plan, names) == [plan EXCEPT !.calls = plan.calls \o names]
\* self.__waitTimeout() was called
Waited(plan) == [plan EXCEPT !.waited = TRUE]

\* __updatePortfolio once the trades are created (line 141)
TradesPlanned(plan, trades) ==
    [plan EXCEPT !.trades = trades,
                 !.calls = plan.calls \o trades.calls,
                 !.outcome = IF trades.err # "" THEN "raise" ELSE "update",
                 !.err = trades.err]

\* __updatePortfolio from the diff on (lines 133-141)
PlanTrades(c, plan, diff) ==
    TradesPlanned([plan EXCEPT !.differed = TRUE, !.diff = diff],
                  createTrades(c, diff.liquidate_portfolio, diff.invest_portfolio))

\* __updatePortfolio from the supported target on (lines 108-141)
UpdateSupported(c, plan, supported) ==
    PlanTrades(c, [plan EXCEPT !.supported_portfolio = supported,
                               !.calls = plan.calls \o <<"getSupportedPortfolio">>],
               Differ(supported, plan.current_portfolio))

\* __updatePortfolio up to the trades (lines 93-141)
updatePortfolio(c, plan) ==
    UpdateSupported(c, plan, getSupportedPortfolio(c, plan.target_portfolio))

\* reinvest from the normalized weights on (lines 267-279)
WeighAndUpdate(c, plan, weight) ==
    IF weight.err # "" THEN Raise(plan, weight.err)
    ELSE IF Len(weight.val) # Len(plan.portfolio)
         THEN Raise([plan EXCEPT !.weight = weight.val, !.normalized = TRUE],
                    "Length of weights and portfolio is not equal")
    ELSE updatePortfolio(c, [plan EXCEPT
            !.weight = weight.val,
            !.normalized = TRUE,
            !.target_portfolio =
                WeightedPortfolio(plan.portfolio, weight.val, plan.total_value),
            !.built = TRUE])

\* reinvest from the filtered portfolio on (lines 259-279)
Weigh(c, a, plan, portfolio) ==
    \* Nothing to do if portfolio is empty
    IF Len(portfolio) = 0 THEN ReturnNone(plan)
    ELSE WeighAndUpdate(c, [plan EXCEPT !.portfolio = portfolio],
                        \* if weights not provided, set them all equal and normalize them
                        NormalizeWeight(IF a.weight_none THEN [i \in DOMAIN portfolio |-> One]
                                        ELSE a.weight))

\* reinvest from the total value on (lines 245-279)
FilterAndWeigh(c, a, plan) ==
    \* Nothing to do if current portfolio is empty
    IF Len(plan.current_portfolio) = 0 \/ plan.total_value = Zero THEN ReturnNone(plan)
    ELSE Weigh(c, a, plan,
               SelectSeq(a.portfolio, LAMBDA x : /\ x \notin Range(a.not_invest_list)
                                                 /\ x \notin Range(a.do_not_alter)))

\* the current portfolio and its total value, noted in the plan (lines 239-243)
Valued(plan, current_portfolio) ==
    [plan EXCEPT !.current_portfolio = current_portfolio,
                 !.total_value = getTotalWorthPortfolio(current_portfolio)]

\* a variant of ReinvestFrom that keeps the do_not_alter holdings in the portfolio
ReinvestFromAll(c, a, plan, source) ==
    IF source.err # "" THEN Raise(plan, source.err)
    ELSE FilterAndWeigh(c, a, Valued(plan, source.val))

\* reinvest from the source portfolio on (lines 238-279)
ReinvestFrom(c, a, plan, source) ==
    IF source.err # "" THEN Raise(plan, source.err)
    ELSE FilterAndWeigh(c, a,
            \* remove currencies which are in do_not_alter lists
            Valued(plan, SelectSeq(source.val,
                                   LAMBDA x : x.sym \notin Range(a.do_not_alter))))

\* reinvest (lines 229-279); plan carries the calls made so far
reinvest(c, a, plan) ==
    IF a.portfolio_none \/ Len(a.portfolio) = 0
    THEN Raise(Waited(plan), "New portfolio not provided.")
    ELSE ReinvestFrom(c, a, Called(Waited(plan), <<"getBalanceUsd">>),
                      createPortfolioFromSource(c, a.source_currencies, a.source_amount))

\* rebalance with the full current portfolio as target (lines 207-217)
RebalanceAll(c, a, balance) ==
    IF balance.err # "" THEN Raise(Called(NoPlan, <<"getBalanceUsd">>), balance.err)
    ELSE reinvest(c, [a EXCEPT !.portfolio = Symbols(balance.val), !.portfolio_none = FALSE],
                  Called(NoPlan, <<"getBalanceUsd">>))

\* the portfolio rebalance hands to reinvest when the caller names the target
\* or the sources (lines 203-205)
RebalanceTarget(a) ==
    IF a.portfolio_none \/ Len(a.portfolio) = 0
    THEN [a EXCEPT !.portfolio = a.source_currencies, !.portfolio_none = FALSE]
    ELSE a

\* rebalance (lines 202-217)
rebalance(c, a) ==
    IF (a.portfolio_none \/ Len(a.portfolio) = 0) /\ Len(a.source_currencies) = 0
    THEN \* if portfolio not provided, use full current portfolio
         RebalanceAll(c, a, getBalanceUsd(c))
    ELSE reinvest(c, RebalanceTarget(a), NoPlan)

\* the type of l + r in Python, for the types "str" and "tuple"
PyAddType(l, r) == IF l = r THEN l ELSE "TypeError"

\* liquidate from __updatePortfolio on (lines 321-324)
LiquidateTarget(c, plan) ==
    \* getSupportedPortfolio computes symbol + base_currency on the tuple
    IF Len(c.base_symbols) > 0 /\ PyAddType("tuple", "str") = "TypeError"
    THEN Raise(Called(plan, <<"getSupportedPortfolio">>), "TypeError")
    ELSE \* without candidates no target is supported
         UpdateSupported(c, plan, <<>>)

\* liquidate from the target on (lines 309-324)
LiquidateTo(c, plan, found) ==
    IF found.err # "" THEN Raise(Called(plan, <<"findBaseCurrency">>), found.err)
    ELSE \* target_portfolio = [((base, missing), total_value)]: the symbol of its one
         \* entry is the tuple findBaseCurrency returned, which no filter of
         \* not_invest_list (strings) removes
         LiquidateTarget(c, [plan EXCEPT
                !.target_portfolio = <<Holding(found.val.base, plan.total_value)>>,
                !.built = TRUE,
                !.calls = plan.calls \o <<"findBaseCurrency">>])

\* liquidate from the total value on (lines 304-324)
LiquidateValued(c, plan) ==
    \* Nothing to do if current portfolio is empty
    IF Len(plan.current_portfolio) = 0 \/ plan.total_value = Zero THEN ReturnNone(plan)
    ELSE LiquidateTo(c, plan, findBaseCurrency(c, plan.current_portfolio))

\* liquidate from the current portfolio on (lines 291-324)
LiquidateFrom(c, a, plan, balance) ==
    IF balance.err # "" THEN Raise(plan, balance.err)
    ELSE IF a.portfolio_none
         THEN \* len(None)
              Raise(plan, "TypeError")
    ELSE LiquidateValued(c,
            Valued(plan,
                   SelectSeq(balance.val,
                             LAMBDA x : /\ Len(a.portfolio) = 0 \/ x.sym \in Range(a.portfolio)
                                        \* remove currencies which are in do_not_alter lists
                                        /\ x.sym \notin Range(a.do_not_alter))))

\* liquidate (lines 288-324)
liquidate(c, a) ==
    LiquidateFrom(c, a, Called(Waited(NoPlan), <<"getBalanceUsd">>), getBalanceUsd(c))

\* getBullSymbol / getBearSymbol of lines 350 and 352
LeveragedSymbol(c, mode, symbol) ==
    IF mode = "bull" THEN getBullSymbol(c, symbol) ELSE getBearSymbol(c, symbol)

\* leverage from the filter check on (lines 356-375)
LeverageTarget(c, a, plan, portfolio, target_portfolio) ==
    IF Len(a.not_invest_list) > 0 \/ Len(a.do_not_alter) > 0
    THEN Raise(plan, "not_invest_list or do_not_alter not supported in leveraging.")
    ELSE IF target_portfolio = <<>>
    THEN Raise(plan, "Provided currencies cannot be leveraged or are already leveraged.")
    ELSE reinvest(c, [a EXCEPT !.portfolio = Symbols(target_portfolio),
                               !.portfolio_none = FALSE,
                               !.source_currencies = Symbols(portfolio),
                               !.source_amount = Values(portfolio),
                               !.weight = Values(target_portfolio),
                               !.weight_none = FALSE],
                  plan)

\* the names of the first n bull or bear lookups
Lookups(mode, n) == [i \in 1..n |-> IF mode = "bull" THEN "getBullSymbol" ELSE "getBearSymbol"]

\* leverage in mode bull or bear, from the target on (lines 349-375); symbol[i] is
\* what the lookup of portfolio[i] gives
LeverageTo(c, a, plan, portfolio, symbol) ==
    LET bad == {i \in DOMAIN portfolio : symbol[i].err # ""}
    IN  IF bad # {}
        THEN Raise(Called(plan, Lookups(a.mode, Min(bad))), symbol[Min(bad)].err)
        ELSE LeverageTarget(c, a,
                [plan EXCEPT
                    !.calls = plan.calls \o Lookups(a.mode, Len(portfolio)),
                    !.lev_target =
                        [i \in DOMAIN portfolio |-> Holding(symbol[i].val, portfolio[i].val)]],
                portfolio,
                [i \in DOMAIN portfolio |-> Holding(symbol[i].val, portfolio[i].val)])

\* leverage in another mode than liquidate (lines 346-375)
LeverageSelected(c, a, plan, portfolio) ==
    IF a.mode \notin {"bull", "bear"}
    THEN Raise([plan EXCEPT !.lev_source = portfolio], "Unsupported mode for leverage.")
    ELSE LeverageTo(c, a, [plan EXCEPT !.lev_source = portfolio], portfolio,
                    [i \in DOMAIN portfolio |-> LeveragedSymbol(c, a.mode, portfolio[i].sym)])

\* leverage in mode liquidate (lines 343-365)
Deleverage(a, plan, portfolio) ==
    IF Len(portfolio) > 0
    THEN \* BinanceClient has no getDeleveragizedSymbol
         Raise([plan EXCEPT !.lev_source = portfolio], "AttributeError")
    ELSE IF Len(a.not_invest_list) > 0 \/ Len(a.do_not_alter) > 0
    THEN Raise(plan, "not_invest_list or do_not_alter not supported in leveraging.")
    ELSE Raise(plan, "Provided currencies cannot be leveraged or are already leveraged.")

\* leverage from the source portfolio on (lines 342-375)
LeverageFrom(c, a, plan, source) ==
    IF source.err # "" THEN Raise(plan, source.err)
    ELSE IF a.mode = "liquidate" THEN Deleverage(a, plan, source.val)
    ELSE LeverageSelected(c, a, Called(plan, <<"getLeveragedCurrencies">>),
                          SelectSeq(source.val,
                                    LAMBDA x : x.sym \in getLeveragedCurrencies(c)))

\* leverage (lines 336-375)
leverage(c, a) ==
    IF ~a.portfolio_none THEN Raise(NoPlan, "Portfolio not accepted with bear/bull options.")
    ELSE LeverageFrom(c, a, Called(NoPlan, <<"getBalanceUsd">>),
                      createPortfolioFromSource(c, a.source_currencies, a.source_amount))

\* ------------------------------------------------------------------- state
VARIABLES
    client,   \* the BinanceClient of the fund (self.exchange)
    pc,       \* "idle" | "liquidate" | "invest" | "done"
    args,     \* the arguments of the entry point being run
    plan,     \* what the entry point computed before executing trades
    exec,     \* the progress of __updatePortfolio lines 149-156
    orders,   \* the calls of sellOrder / buyOrder made by the run, in order
    result,   \* how the entry point ended
    clock     \* the time, self.last_time, and when the runs started and finished

vars == <<client, pc, args, plan, exec, orders, result, clock>>

\* getTimeSec(): round(time.time() * 1000 * 1000), at now seconds
getTimeSec(now) == now * 1000 * 1000

RECURSIVE waitTimeout(_, _)
\* __waitTimeout: the time at which the loop ends when it is entered at now
waitTimeout(now, last_time) ==
    IF getTimeSec(now) - last_time < TIMEOUT_BW_CALLS
    THEN \* time.sleep(1)
         waitTimeout(now + 1, last_time)
    ELSE now

\* self.last_time = 0; no run has started or finished yet
NewClock == [now |-> StartTime, last_time |-> 0, ran |-> FALSE, finished |-> 0, started |-> 0]

\* the clock once the entry point has gone through its __waitTimeout, if it has one
Started(waited) ==
    IF waited
    THEN [clock EXCEPT !.now = waitTimeout(clock.now, clock.last_time),
                       !.started = waitTimeout(clock.now, clock.last_time)]
    ELSE [clock EXCEPT !.started = clock.now]

NoArgs == [op |-> "none", mode |-> "none", portfolio |-> <<>>, portfolio_none |-> TRUE,
           source_currencies |-> <<>>, source_amount |-> <<>>,
           not_invest_list |-> <<>>, do_not_alter |-> <<>>,
           weight |-> <<>>, weight_none |-> TRUE, live_run |-> FALSE]

NoExec == [sold |-> <<>>, liquidated_amount |-> Zero, rescaled |-> FALSE,
           invest_trades |-> <<>>, bought |-> <<>>, refetched |-> FALSE]

\* outcome = "raised" (err), "returned" (none: it returned None; else val)
NoResult == [outcome |-> "none", err |-> "", none |-> FALSE, val |-> <<>>]
ResultRaised(e) == [NoResult EXCEPT !.outcome = "raised", !.err = e]
ResultNone == [NoResult EXCEPT !.outcome = "returned", !.none = TRUE]
Returned(v) == [NoResult EXCEPT !.outcome = "returned", !.val = v]
ResultPortfolio(p) == Returned(p)

\* main (execute_index_fund.py lines 112-123) calls the entry point and drops
\* what it returns: main itself returns None
main(r) == IF r.outcome = "returned" THEN ResultNone ELSE r

\* one call of the sell or buy primitive, as the fund made it and as it ended
Order(side, t, live_run, r) ==
    [side |-> side, sym |-> t.sym, base |-> t.base, quant |-> t.quant,
     live_run |-> live_run, placed |-> r.placed, err |-> r.err, ret |-> r.val]

\* ------------------------------------------------- the exchanges of the model
Priced(pair, n, d) == [pair |-> pair, price |-> Rat(n, d)]
PriceMap(S) == [p \in {x.pair : x \in S} |-> (CHOOSE x \in S : x.pair = p).price]

\* USDT quotes everything; BTC has both leveraged tokens, ETH only the UP one
StdPairs ==
    PriceMap({Priced(BTC \o USDT, 1, 1), Priced(ETH \o USDT, 1, 1),
              Priced(XRP \o USDT, 1, 1), Priced(ETH \o BTC, 1, 1),
              Priced(BTCUP \o USDT, 1, 1), Priced(BTCDOWN \o USDT, 1, 1),
              Priced(ETHUP \o USDT, 1, 1), Priced(USDT \o DAI, 1, 1)})

\* BTC quotes as many pairs as USDT and is listed first; a BTC is worth 2 USDT
AltPairs ==
    PriceMap({Priced(ETH \o BTC, 1, 2), Priced(XRP \o BTC, 1, 2),
              Priced(BTC \o USDT, 2, 1), Priced(ETH \o USDT, 1, 1),
              Priced(USDT \o DAI, 1, 1)})

\* the assets an account lists, in the exchange's order
AllAssets == <<BTC, ETH, XRP, USDT, DAI, BTCUP, BTCDOWN, ETHUP>>

\* info["balances"]: every asset with its free amount
Wallet(held) ==
    [i \in DOMAIN AllAssets |->
        [asset |-> AllAssets[i],
         free |-> IF \E h \in held : h.sym = AllAssets[i]
                  THEN (CHOOSE h \in held : h.sym = AllAssets[i]).val
                  ELSE Zero]]

Clients ==
    {NewClient(StdPairs, Wallet({Holding(BTC, Int2Rat(1000)), Holding(ETH, Int2Rat(500))}),
               Int2Rat(10), One),
     NewClient(StdPairs, Wallet({Holding(BTC, Int2Rat(1000)), Holding(ETH, Int2Rat(500))}),
               Int2Rat(600), One),
     NewClient(StdPairs, Wallet({}), Int2Rat(10), One),
     NewClient(StdPairs, Wallet({Holding(BTC, Int2Rat(15))}), Int2Rat(10), One),
     NewClient(StdPairs, Wallet({Holding(USDT, Int2Rat(1000)), Holding(BTC, Int2Rat(500))}),
               Int2Rat(10), One),
     NewClient(StdPairs, Wallet({Holding(ETH, Int2Rat(500)), Holding(XRP, Int2Rat(400))}),
               Int2Rat(10), One),
     NewClient(AltPairs, Wallet({Holding(BTC, Int2Rat(500)), Holding(ETH, Int2Rat(500))}),
               Int2Rat(10), One),
     NewClient(AltPairs, Wallet({Holding(USDT, Int2Rat(1000)), Holding(XRP, Int2Rat(250))}),
               Int2Rat(10), One)}

\* --------------------------------------------------- the calls of the model
\* a weight argument: None, or a list of no, one or two weights of 0..MaxWeight
WeightArgs ==
    {[weight_none |-> TRUE, weight |-> <<>>], [weight_none |-> FALSE, weight |-> <<>>]}
    \cup {[weight_none |-> FALSE, weight |-> <<Int2Rat(w)>>] : w \in 0..MaxWeight}
    \cup {[weight_none |-> FALSE, weight |-> <<Int2Rat(w[1]), Int2Rat(w[2])>>] :
            w \in (0..MaxWeight) \X (0..MaxWeight)}

None == [portfolio_none |-> TRUE, portfolio |-> <<>>]
Given(q) == [portfolio_none |-> FALSE, portfolio |-> q]

\* a portfolio argument: None, or a list of symbols
PortfolioArgs ==
    {None} \cup {Given(q) : q \in {<<>>, <<BTC>>, <<XRP, ETH>>, <<BTC, ETH>>, <<BTC, ZZZ>>,
                                   <<USDT, ETH>>, <<BTC, BTC>>, <<ZZZ>>}}

SourceArgs ==
    {[source_currencies |-> <<>>, source_amount |-> <<>>],
     [source_currencies |-> <<BTC>>, source_amount |-> <<>>],
     [source_currencies |-> <<BTC>>, source_amount |-> <<Int2Rat(400)>>],
     [source_currencies |-> <<BTC>>, source_amount |-> <<Int2Rat(2000)>>]}

FilterArgs ==
    {[not_invest_list |-> <<>>, do_not_alter |-> <<>>],
     [not_invest_list |-> <<ETH>>, do_not_alter |-> <<>>],
     [not_invest_list |-> <<>>, do_not_alter |-> <<BTC>>]}

Args(op, mode, p, s, f, w, live_run) ==
    [op |-> op, mode |-> mode, portfolio |-> p.portfolio, portfolio_none |-> p.portfolio_none,
     source_currencies |-> s.source_currencies, source_amount |-> s.source_amount,
     not_invest_list |-> f.not_invest_list, do_not_alter |-> f.do_not_alter,
     weight |-> w.weight, weight_none |-> w.weight_none, live_run |-> live_run]

\* ------------------------------------------------------------------ actions
Init ==
    /\ client \in Clients
    /\ pc = "idle"
    /\ args = NoArgs
    /\ plan = NoPlan
    /\ exec = NoExec
    /\ orders = <<>>
    /\ result = NoResult
    /\ clock = NewClock

\* an entry point runs up to its first order, or to its end
Enter(a, p) ==
    /\ args' = a
    /\ plan' = p
    /\ pc' = IF p.outcome = "update" THEN "liquidate" ELSE "done"
    /\ result' = IF p.outcome = "raise" THEN ResultRaised(p.err)
                 ELSE IF p.outcome = "return" THEN ResultNone
                 ELSE NoResult
    /\ clock' = Started(p.waited)
    /\ UNCHANGED <<client, exec, orders>>

NoSource == [source_currencies |-> <<>>, source_amount |-> <<>>]
NoWeight == [weight_none |-> TRUE, weight |-> <<>>]

Reinvest ==
    /\ pc = "idle"
    /\ \E p \in PortfolioArgs, s \in SourceArgs, f \in FilterArgs, w \in WeightArgs,
          live_run \in BOOLEAN :
        Enter(Args("reinvest", "none", p, s, f, w, live_run),
              reinvest(client, Args("reinvest", "none", p, s, f, w, live_run), NoPlan))

Rebalance ==
    /\ pc = "idle"
    /\ \E p \in {None, Given(<<>>), Given(<<BTC, ETH>>)}, s \in SourceArgs, f \in FilterArgs,
          w \in WeightArgs, live_run \in BOOLEAN :
        Enter(Args("rebalance", "none", p, s, f, w, live_run),
              rebalance(client, Args("rebalance", "none", p, s, f, w, live_run)))

Liquidate ==
    /\ pc = "idle"
    /\ \E p \in PortfolioArgs, f \in FilterArgs, live_run \in BOOLEAN :
        Enter(Args("liquidate", "none", p, NoSource, f, NoWeight, live_run),
              liquidate(client, Args("liquidate", "none", p, NoSource, f, NoWeight, live_run)))

Leverage ==
    /\ pc = "idle"
    /\ \E mode \in {"bull", "bear", "liquidate", "long"}, p \in {None, Given(<<BTC>>)},
          s \in SourceArgs, f \in FilterArgs, live_run \in BOOLEAN :
        Enter(Args("leverage", mode, p, s, f, NoWeight, live_run),
              leverage(client, Args("leverage", mode, p, s, f, NoWeight, live_run)))

\* the trades __executeTrades has still to hand to tradeFunc
Pending(trades, done) == SubSeq(NonSelfTrades(trades), Len(done) + 1, Len(NonSelfTrades(trades)))

\* a variant of Execute that goes on with the next trade when tradeFunc raises
ExecuteRegardless(side, t, done, r) ==
    /\ orders' = Append(orders, Order(side, t, args.live_run, r))
    /\ pc' = pc
    /\ result' = result
    /\ exec' = IF side = "SELL" THEN [exec EXCEPT !.sold = Append(done, r.val)]
               ELSE [exec EXCEPT !.bought = Append(done, r.val)]
    /\ UNCHANGED <<client, args, plan, clock>>

\* one iteration of the list comprehension of line 49: tradeFunc ended as r
Execute(side, t, done, r) ==
    /\ orders' = Append(orders, Order(side, t, args.live_run, r))
    /\ IF r.err # ""
       THEN /\ pc' = "done"
            /\ result' = ResultRaised(r.err)
            /\ exec' = exec
       ELSE /\ pc' = pc
            /\ result' = result
            /\ exec' = IF side = "SELL" THEN [exec EXCEPT !.sold = Append(done, r.val)]
                       ELSE [exec EXCEPT !.bought = Append(done, r.val)]
    /\ UNCHANGED <<client, args, plan, clock>>

Sell(t, reply) ==
    Execute("SELL", t, exec.sold,
            sellOrder(client, t.sym, t.base, t.quant, args.live_run, reply))

Buy(t, reply) ==
    Execute("BUY", t, exec.bought,
            buyOrder(client, t.sym, t.base, t.quant, args.live_run, reply))

\* __liquidateTrades: the next sell order (line 149)
SellOrder ==
    /\ pc = "liquidate"
    /\ Pending(plan.trades.liquidate_trades, exec.sold) # <<>>
    /\ \E reply \in Replies :
        Sell(Head(Pending(plan.trades.liquidate_trades, exec.sold)), reply)

\* lines 152-154, with the amount __liquidateTrades returned
RescaleTo(liquidated_amount) ==
    IF /\ plan.trades.invest_trades # <<>>
       /\ RSum(Quants(plan.trades.invest_trades)) = Zero
    THEN /\ pc' = "done"
         /\ result' = ResultRaised("ZeroDivisionError")
         /\ exec' = [exec EXCEPT !.liquidated_amount = liquidated_amount]
    ELSE /\ pc' = "invest"
         /\ result' = result
         /\ exec' = [exec EXCEPT !.liquidated_amount = liquidated_amount,
                                 !.rescaled = TRUE,
                                 !.invest_trades =
                                     RescaleTrades(plan.trades.invest_trades,
                                                   liquidated_amount)]

\* a variant of Rescale that does not wait for the sell orders still to be made
RescaleEarly ==
    /\ pc = "liquidate"
    /\ RescaleTo(RAdd(SelfTradesAmount(plan.trades.liquidate_trades), RSum(exec.sold)))
    /\ UNCHANGED <<client, args, plan, orders, clock>>

\* the liquidated amount and the rescaled invest trades (lines 149-154)
Rescale ==
    /\ pc = "liquidate"
    /\ Pending(plan.trades.liquidate_trades, exec.sold) = <<>>
    /\ RescaleTo(RAdd(SelfTradesAmount(plan.trades.liquidate_trades), RSum(exec.sold)))
    /\ UNCHANGED <<client, args, plan, orders, clock>>

\* __investTrades: the next buy order (line 156)
BuyOrder ==
    /\ pc = "invest"
    /\ Pending(exec.invest_trades, exec.bought) # <<>>
    /\ \E reply \in Replies :
        Buy(Head(Pending(exec.invest_trades, exec.bought)), reply)

\* the balance fetched again, cut to the target symbols (lines 163-165)
Refetched(updated, target_portfolio) ==
    IF updated.err # "" THEN updated
    ELSE Ok(SelectSeq(updated.val, LAMBDA x : x.sym \in Range(Symbols(target_portfolio))))

\* the updated portfolio (lines 159-171)
UpdatedPortfolio(c, target_portfolio, live_run) ==
    IF ~live_run THEN Ok(target_portfolio)
    ELSE Refetched(getBalanceUsd(c), target_portfolio)

\* how __updatePortfolio ends, given the updated portfolio
Ended(updated) ==
    IF updated.err # "" THEN ResultRaised(updated.err) ELSE ResultPortfolio(updated.val)

Finish ==
    /\ pc = "invest"
    /\ Pending(exec.invest_trades, exec.bought) = <<>>
    /\ result' = Ended(UpdatedPortfolio(client, plan.diff.target, args.live_run))
    /\ exec' = [exec EXCEPT !.refetched = args.live_run]
    /\ pc' = "done"
    /\ UNCHANGED <<client, args, plan, orders, clock>>

\* the caller has the outcome; the fund is ready for the next call
Return ==
    /\ pc = "done"
    /\ pc' = "idle"
    /\ args' = NoArgs
    /\ plan' = NoPlan
    /\ exec' = NoExec
    /\ orders' = <<>>
    /\ result' = NoResult
    /\ clock' = [clock EXCEPT !.ran = TRUE, !.finished = clock.now]
    /\ UNCHANGED client

Next ==
    \/ Reinvest
    \/ Rebalance
    \/ Liquidate
    \/ Leverage
    \/ SellOrder
    \/ Rescale
    \/ BuyOrder
    \/ Finish
    \/ Return

\* Spec leaves the time between two calls at nothing; SpecWait lets it pass
Spec == Init /\ [][Next]_vars

\* ------------------------------------------- the order primitives on their own
\* buyOrder and sellOrder are public methods of the client: here a caller also
\* calls them directly, on listed and unlisted pairs, below and above the minimum.
OrderSymbols == {BTC, XRP, USDT, ZZZ}
OrderBases == {USDT, BTC}
OrderQuants == {Int2Rat(5), Int2Rat(700)}

\* how a direct call of buyOrder / sellOrder ends: val holds the amount returned
Traded(r) == IF r.err # "" THEN ResultRaised(r.err) ELSE Returned(<<r.val>>)

\* the caller has the order r of the trade t
Ordered(side, t, live_run, r) ==
    /\ args' = [NoArgs EXCEPT !.op = "order", !.live_run = live_run]
    /\ orders' = <<Order(side, t, live_run, r)>>
    /\ result' = Traded(r)
    /\ pc' = "done"
    /\ UNCHANGED <<client, plan, exec, clock>>

PlaceOrder ==
    /\ pc = "idle"
    /\ \E side \in {"SELL", "BUY"}, symbol \in OrderSymbols, base \in OrderBases,
          quant \in OrderQuants, live_run \in BOOLEAN, reply \in Replies :
        Ordered(side, Trade(symbol, base, quant), live_run,
                IF side = "SELL" THEN sellOrder(client, symbol, base, quant, live_run, reply)
                ELSE buyOrder(client, symbol, base, quant, live_run, reply))

NextOrder ==
    \/ PlaceOrder
    \/ Next

SpecOrder == Init /\ [][NextOrder]_vars

\* ------------------------------------------------ the fund and its clock
\* time passes between two calls
Tick ==
    /\ pc = "idle"
    /\ clock.now < StartTime + MaxTicks * TickSeconds
    /\ clock' = [clock EXCEPT !.now = clock.now + TickSeconds]
    /\ UNCHANGED <<client, pc, args, plan, exec, orders, result>>

InitWait ==
    /\ client = NewClient(StdPairs,
                          Wallet({Holding(BTC, Int2Rat(1000)), Holding(ETH, Int2Rat(500))}),
                          Int2Rat(10), One)
    /\ pc = "idle"
    /\ args = NoArgs
    /\ plan = NoPlan
    /\ exec = NoExec
    /\ orders = <<>>
    /\ result = NoResult
    /\ clock = NewClock

NextWait ==
    \/ Tick
    \/ Reinvest
    \/ Rebalance
    \/ Liquidate
    \/ Leverage
    \/ SellOrder
    \/ Rescale
    \/ BuyOrder
    \/ Finish
    \/ Return

SpecWait == InitWait /\ [][NextWait]_vars

\* ------------------------------------------- findBaseCurrency on its own
\* The selector is a public method of the client: here it is called directly,
\* on any list of symbols, against exchanges that list any subset of FbcPairs.
FbcPairs ==
    {Priced(BTC \o USDT, 1, 1), Priced(ETH \o USDT, 1, 1), Priced(ETH \o BTC, 1, 1),
     Priced(XRP \o BTC, 1, 1), Priced(USDT \o DAI, 1, 1)}

FbcClients == {NewClient(PriceMap(S), Wallet({}), Int2Rat(10), One) : S \in SUBSET FbcPairs}

FbcSymbols == {BTC, ETH, XRP, USDT}

\* the lists of at most two symbols
SymbolLists ==
    {<<>>} \cup {<<x>> : x \in FbcSymbols} \cup {<<x, y>> : x \in FbcSymbols, y \in FbcSymbols}

\* how a direct call of findBaseCurrency ends
Found(found) == IF found.err # "" THEN ResultRaised(found.err) ELSE Returned(found.val)

InitFBC ==
    /\ client \in FbcClients
    /\ pc = "idle"
    /\ args = NoArgs
    /\ plan = NoPlan
    /\ exec = NoExec
    /\ orders = <<>>
    /\ result = NoResult
    /\ clock = NewClock

FindBaseCurrency ==
    /\ pc = "idle"
    /\ \E symbols \in SymbolLists :
        /\ args' = [NoArgs EXCEPT !.op = "findBaseCurrency", !.portfolio = symbols,
                                  !.portfolio_none = FALSE]
        /\ result' = Found(findBaseCurrency(client,
                                [i \in DOMAIN symbols |-> Holding(symbols[i], One)]))
    /\ pc' = "done"
    /\ UNCHANGED <<client, plan, exec, orders, clock>>

NextFBC ==
    \/ FindBaseCurrency
    \/ Return

SpecFBC == InitFBC /\ [][NextFBC]_vars

\* ------------------------------------------------------------------ claims
\* the orders of one side, in the order they were made
Side(side) == SelectSeq(orders, LAMBDA o : o.side = side)

\* the value a portfolio gives a symbol: 0 when it does not list it
Value(portfolio, s) ==
    IF \E x \in Range(portfolio) : x.sym = s
    THEN (CHOOSE x \in Range(portfolio) : x.sym = s).val
    ELSE Zero

UniqueSymbols(portfolio) ==
    \A i, j \in DOMAIN portfolio : portfolio[i].sym = portfolio[j].sym => i = j

NoFilters == args.not_invest_list = <<>> /\ args.do_not_alter = <<>>

\* C1 (as the specification states it): in every run, the amounts handed to the
\* buy primitive sum to no more than the realized pool, which is the sum of the
\* self-trade amounts of the liquidation plus what the sell primitive returned.
C1_InvestWithinRealizedPool ==
    RLe(RSum(Map1(Side("BUY"), LAMBDA o : o.quant)),
        RAdd(RSum(Quants(SelfTrades(plan.trades.liquidate_trades))),
             RSum(Map1(Side("SELL"), LAMBDA o : o.ret))))

\* C2 (as the specification states it): liquidate on a non-empty selection of
\* holdings, with an empty or a named portfolio argument, returns a result of
\* exactly one entry, in the settlement currency, and main returns that result.
C2_LiquidateReturnsSettlement ==
    (/\ args.op = "liquidate"
     /\ pc = "done"
     /\ ~args.portfolio_none
     /\ plan.current_portfolio # <<>>)
    => /\ result.outcome = "returned"
       /\ ~result.none
       /\ Len(result.val) = 1
       /\ result.val[1].sym = findBaseCurrency(client, plan.current_portfolio).val.base
       /\ main(result) = result

\* the liquidation set the claim C3 describes
ExpectedLiquidation(target, current) ==
    {Holding(x.sym, x.val) : x \in {y \in Range(current) : y.sym \notin Range(Symbols(target))}}
    \cup {Holding(x.sym, RSub(Value(current, x.sym), x.val)) :
            x \in {y \in Range(target) : RLt(y.val, Value(current, y.sym))}}

\* the investment set the claim C3 describes
ExpectedInvestment(target, current) ==
    {Holding(x.sym, RSub(x.val, Value(current, x.sym))) :
        x \in {y \in Range(target) : RLt(Value(current, y.sym), y.val)}}

\* C3: for a target and a current portfolio with unique symbols, the Differ
\* liquidates every current symbol absent from the target at its full value and
\* every symbol with a negative delta by current - target, and invests every
\* positive delta (a target symbol absent from current counts as 0); nothing else.
C3_DifferSets ==
    (/\ plan.differed
     /\ UniqueSymbols(plan.supported_portfolio)
     /\ UniqueSymbols(plan.current_portfolio))
    => /\ Range(plan.diff.liquidate_portfolio) =
            ExpectedLiquidation(plan.supported_portfolio, plan.current_portfolio)
       /\ Range(plan.diff.invest_portfolio) =
            ExpectedInvestment(plan.supported_portfolio, plan.current_portfolio)
       /\ UniqueSymbols(plan.diff.liquidate_portfolio)
       /\ UniqueSymbols(plan.diff.invest_portfolio)

\* the example of C3: current [(BTC,1000),(ETH,500)], target [(BTC,750)]
C3_Witness ==
    /\ plan.differed
    /\ plan.current_portfolio = <<Holding(BTC, Int2Rat(1000)), Holding(ETH, Int2Rat(500))>>
    /\ plan.supported_portfolio = <<Holding(BTC, Int2Rat(750))>>
    /\ Range(plan.diff.liquidate_portfolio) =
            {Holding(BTC, Int2Rat(250)), Holding(ETH, Int2Rat(500))}
    /\ plan.diff.invest_portfolio = <<>>

\* the same holdings, whatever the order
SamePortfolio(p, q) == Len(p) = Len(q) /\ Range(p) = Range(q)

\* C4: when the target equals the current portfolio, symbol by symbol and value
\* by value, every delta is zero, the liquidation and the investment set are
\* empty, and the run issues no sell and no buy order.
C4_SelfReconcile ==
    (/\ plan.differed
     /\ UniqueSymbols(plan.current_portfolio)
     /\ SamePortfolio(plan.supported_portfolio, plan.current_portfolio))
    => /\ \A x \in Range(plan.diff.diff_portfolio) : x.val = Zero
       /\ plan.diff.liquidate_portfolio = <<>>
       /\ plan.diff.invest_portfolio = <<>>
       /\ orders = <<>>

\* a run that reconciled a non-empty portfolio against itself and returned
C4_Witness ==
    /\ pc = "done"
    /\ result.outcome = "returned"
    /\ plan.differed
    /\ Len(plan.current_portfolio) = 2
    /\ SamePortfolio(plan.supported_portfolio, plan.current_portfolio)

\* C5: the normalized weights reinvest uses sum to 1, for the caller's weights
\* and for the default equal weights, so the values of the target portfolio
\* sum to the total value of the current (source) portfolio.
C5_WeightsSumToOne ==
    (plan.normalized /\ plan.weight # <<>>)
    => /\ RSum(plan.weight) = One
       /\ plan.built => RSum(Values(plan.target_portfolio)) = plan.total_value

\* a target built from the caller's weights 2 and 1
C5_Witness ==
    /\ plan.built
    /\ ~args.weight_none
    /\ args.weight = <<Int2Rat(2), One>>
    /\ plan.weight = <<Rat(2, 3), Rat(1, 3)>>
    /\ plan.total_value = Int2Rat(1500)

\* reinvest was called with a non-empty weight vector whose sum is 0
ZeroSumCall ==
    /\ args.op = "reinvest"
    /\ ~args.weight_none
    /\ args.weight # <<>>
    /\ RSum(args.weight) = Zero

\* C6 (as the specification states it): with a non-empty weight vector of sum 0
\* reinvest fails with a divide-by-zero error, builds no target, issues no order.
C6_ZeroSumRaises ==
    (ZeroSumCall /\ pc = "done")
    => /\ result.outcome = "raised"
       /\ result.err = "ZeroDivisionError"
       /\ ~plan.built
       /\ orders = <<>>

\* the source portfolio of the call, as __createPortfolioFromSource gives it
SourceOfCall == createPortfolioFromSource(client, args.source_currencies, args.source_amount)

\* reinvest gets as far as its normalization: a target is given, the source
\* portfolio is created and has value left outside do_not_alter, and a target
\* symbol is left outside both lists
ReachesNormalization ==
    /\ ~args.portfolio_none
    /\ args.portfolio # <<>>
    /\ SourceOfCall.err = ""
    /\ \E x \in Range(SourceOfCall.val) :
            x.sym \notin Range(args.do_not_alter) /\ x.val # Zero
    /\ \E x \in Range(args.portfolio) :
            x \notin Range(args.not_invest_list) /\ x \notin Range(args.do_not_alter)

\* C6 (amended): with a non-empty weight vector of sum 0 reinvest builds no
\* target and issues no order; it fails with a divide-by-zero error exactly when
\* it gets as far as its normalization, and otherwise ends as it would have
\* with any weights (an earlier error, or a return without result).
C6_ZeroSumRaisesAtNormalization ==
    (ZeroSumCall /\ pc # "idle")
    => /\ pc = "done"
       /\ ~plan.built
       /\ orders = <<>>
       /\ ReachesNormalization
            <=> (result.outcome = "raised" /\ result.err = "ZeroDivisionError")

\* a call with weights [0, 0] that failed in the normalization
C6_Witness ==
    /\ ZeroSumCall
    /\ Len(args.weight) = 2
    /\ ReachesNormalization
    /\ result.err = "ZeroDivisionError"

\* C7 (as the specification states it): reinvest and rebalance, given weights
\* whose number differs from the number of target symbols, fail with the
\* length-mismatch error before any exchange call is made.
C7_LengthMismatchFailsFirst ==
    (/\ args.op \in {"reinvest", "rebalance"}
     /\ pc = "done"
     /\ ~args.weight_none
     /\ ~args.portfolio_none
     /\ args.portfolio # <<>>
     /\ Len(args.weight) # Len(args.portfolio))
    => /\ result.outcome = "raised"
       /\ result.err = "Length of weights and portfolio is not equal"
       /\ plan.calls = <<>>

\* the symbol lacks a direct pair with the candidate
Lacks(c, symbol, candidate) ==
    symbol \o candidate \notin DOMAIN c.all_pairs /\ symbol # candidate

\* the number of entries of the list that lack a direct pair with the candidate
LackCount(c, symbols, candidate) ==
    Cardinality({i \in DOMAIN symbols : Lacks(c, symbols[i], candidate)})

\* C8 (as the specification states it): for a non-empty symbol list and ranked
\* candidates, findBaseCurrency returns the earliest candidate among those with
\* the least number of symbols lacking a direct pair, and the symbols that lack
\* a direct pair with it.
C8_EarliestMinimalBase ==
    (/\ args.op = "findBaseCurrency"
     /\ pc = "done"
     /\ args.portfolio # <<>>
     /\ client.base_symbols # <<>>)
    => /\ result.outcome = "returned"
       /\ \E k \in DOMAIN client.base_symbols :
            /\ result.val.base = client.base_symbols[k]
            /\ \A j \in DOMAIN client.base_symbols :
                /\ LackCount(client, args.portfolio, client.base_symbols[k])
                        <= LackCount(client, args.portfolio, client.base_symbols[j])
                /\ j < k => LackCount(client, args.portfolio, client.base_symbols[k])
                                < LackCount(client, args.portfolio, client.base_symbols[j])
       /\ Range(result.val.missing) =
            {x \in Range(args.portfolio) : Lacks(client, x, result.val.base)}

\* the exchange lists symbol + direction + quote next to symbol + quote
HasCounterpart(c, symbol, direction) ==
    \E quote \in Range(c.all_symbols) :
        /\ symbol \o <<direction>> \o quote \in DOMAIN c.all_pairs
        /\ symbol \o quote \in DOMAIN c.all_pairs

\* leverage bull or bear, without target, on a source portfolio none of whose
\* symbols has both an UP and a DOWN counterpart; the run has ended
NothingToLeverage ==
    /\ args.op = "leverage"
    /\ pc = "done"
    /\ args.mode \in {"bull", "bear"}
    /\ args.portfolio_none
    /\ SourceOfCall.err = ""
    /\ \A x \in Range(SourceOfCall.val) :
            ~(HasCounterpart(client, x.sym, "UP") /\ HasCounterpart(client, x.sym, "DOWN"))

\* C9 (as the specification states it): such a call produces an empty target,
\* raises the 'cannot be leveraged' error and issues no order.
C9_NothingToLeverageRaises ==
    NothingToLeverage
    => /\ plan.lev_target = <<>>
       /\ result.outcome = "raised"
       /\ result.err = "Provided currencies cannot be leveraged or are already leveraged."
       /\ orders = <<>>

\* C9 (amended): such a call with an empty not_invest_list and an empty
\* do_not_alter produces an empty target, raises the 'cannot be leveraged'
\* error and issues no order.
C9_NothingToLeverageRaisesUnfiltered ==
    (NothingToLeverage /\ NoFilters)
    => /\ plan.lev_target = <<>>
       /\ result.outcome = "raised"
       /\ result.err = "Provided currencies cannot be leveraged or are already leveraged."
       /\ orders = <<>>

\* leverage bull on holdings of ETH and XRP, of which ETH has an UP token only
C9_Witness ==
    /\ NothingToLeverage
    /\ NoFilters
    /\ args.mode = "bull"
    /\ Symbols(SourceOfCall.val) = <<ETH, XRP>>
    /\ HasCounterpart(client, ETH, "UP")
    /\ result.err = "Provided currencies cannot be leveraged or are already leveraged."

\* C10 (as the specification states it): leverage rejects a caller-provided
\* target, and a non-empty not_invest_list or do_not_alter, with a usage error
\* raised before any exchange call is made.
C10_UsageErrorsFirst ==
    (/\ args.op = "leverage"
     /\ pc = "done"
     /\ ~args.portfolio_none \/ ~NoFilters)
    => /\ result.outcome = "raised"
       /\ result.err \in {"Portfolio not accepted with bear/bull options.",
                          "not_invest_list or do_not_alter not supported in leveraging."}
       /\ plan.calls = <<>>

\* C11 (as the specification states it): on one fund, a reconciliation run
\* starts only when at least TIMEOUT_BW_CALLS seconds have passed since the
\* previous run finished.
C11_WaitsBetweenRuns ==
    (pc # "idle" /\ clock.ran) => clock.started - clock.finished >= TIMEOUT_BW_CALLS

\* the order was handed to the exchange in a live run and did not come back
\* FILLED: no order was returned, or the wait for the fill ran out
Unfilled(o) ==
    /\ o.live_run
    /\ o.placed
    /\ o.err \in {"Placing the order failed", "Order did not fill itself"}

\* C12: in a live run, an order that is placed and does not fill ends the run
\* with its error, which reaches the caller; it is the last order of the run
\* (no later sell or buy, hence no order that unwinds the earlier ones), and
\* the orders executed before it stay as they were realized.
C12_UnfilledOrderAborts ==
    \A i \in DOMAIN orders :
        Unfilled(orders[i])
        => /\ i = Len(orders)
           /\ pc = "done"
           /\ result.outcome = "raised"
           /\ result.err = orders[i].err
           /\ \A j \in 1..(i - 1) : orders[j].err = ""
           /\ exec.sold \o exec.bought = [j \in 1..(i - 1) |-> orders[j].ret]

\* a sell was filled and the buy after it was not
C12_Witness ==
    /\ Len(orders) = 2
    /\ orders[1].side = "SELL" /\ orders[1].placed /\ RLt(Zero, orders[1].ret)
    /\ orders[2].side = "BUY" /\ Unfilled(orders[2])
    /\ orders[2].err = "Order did not fill itself"
    /\ pc = "done"

\* the step makes a call of buyOrder or sellOrder with live_run = false
DryOrderStep ==
    /\ Len(orders') = Len(orders) + 1
    /\ ~orders'[Len(orders')].live_run

\* the call of the order primitive the step makes
NewOrder == orders'[Len(orders')]

\* the pair is listed, its base is a ranked base symbol and its symbol an asset
Tradeable(c, o) ==
    /\ o.sym \o o.base \in DOMAIN c.all_pairs
    /\ o.base \in Range(c.base_symbols)
    /\ o.sym \in Range(c.all_symbols)

\* C13 (as the specification states it): with live_run = false, buyOrder and
\* sellOrder hand no order to the exchange, change no client state and return 0,
\* for every input.
C13_DryOrderIsNoOp ==
    [][DryOrderStep => /\ ~NewOrder.placed
                       /\ client' = client
                       /\ NewOrder.err = ""
                       /\ NewOrder.ret = Zero]_vars

\* C13 (amended): with live_run = false, buyOrder and sellOrder hand no order to
\* the exchange and change no client state; they raise when the pair is not
\* listed, and return 0 for every listed pair of a ranked base symbol and an
\* asset of the account, which is what every order of an entry point is.
C13_DryOrderPlacesNothing ==
    [][DryOrderStep => /\ ~NewOrder.placed
                       /\ client' = client
                       /\ NewOrder.ret = Zero
                       /\ NewOrder.sym \o NewOrder.base \notin DOMAIN client.all_pairs
                            => NewOrder.err = "Pair to trade is not available on the exchange"
                       /\ Tradeable(client, NewOrder) => NewOrder.err = ""
                       /\ args'.op # "order" => Tradeable(client, NewOrder)]_vars

\* a dry run of reinvest that called sellOrder and buyOrder above the minimum
\* notional and has returned, and placed nothing
C13_Witness ==
    /\ args.op = "reinvest"
    /\ ~args.live_run
    /\ pc = "done"
    /\ result.outcome = "returned"
    /\ Len(Side("SELL")) > 0
    /\ Len(Side("BUY")) > 0
    /\ RLe(client.min_notional, RMul(orders[1].quant, RSub(One, FEE)))
    /\ \A i \in DOMAIN orders : ~orders[i].placed /\ orders[i].ret = Zero

\* the portfolio the call redistributes: the source portfolio of reinvest and
\* rebalance, the selected holdings of liquidate, without the do_not_alter ones
SelectedOfCall ==
    IF args.op = "liquidate"
    THEN SelectSeq(getBalanceUsd(client).val,
                   LAMBDA x : /\ args.portfolio = <<>> \/ x.sym \in Range(args.portfolio)
                              /\ x.sym \notin Range(args.do_not_alter))
    ELSE SelectSeq(SourceOfCall.val, LAMBDA x : x.sym \notin Range(args.do_not_alter))

\* the target symbols the call names: those of reinvest, and for rebalance the
\* given ones, else the source currencies, else the current holdings
TargetOfCall ==
    IF args.op = "rebalance" /\ (args.portfolio_none \/ args.portfolio = <<>>)
    THEN IF args.source_currencies # <<>> THEN args.source_currencies
         ELSE Symbols(getBalanceUsd(client).val)
    ELSE args.portfolio

\* the target symbols left by not_invest_list, do_not_alter and the exchange
EligibleOfCall ==
    SelectSeq(TargetOfCall,
              LAMBDA x : /\ x \notin Range(args.not_invest_list)
                         /\ x \notin Range(args.do_not_alter)
                         /\ \E i \in DOMAIN client.base_symbols :
                                x \o client.base_symbols[i] \in DOMAIN client.all_pairs)

\* the current portfolio of the call is empty or worth nothing
NothingHeld ==
    /\ args.op \in {"reinvest", "rebalance", "liquidate"}
    /\ args.op = "liquidate" => ~args.portfolio_none
    /\ args.op = "reinvest" => ~args.portfolio_none /\ args.portfolio # <<>>
    /\ SourceOfCall.err = ""
    /\ SelectedOfCall = <<>> \/ getTotalWorthPortfolio(SelectedOfCall) = Zero

\* the call names target symbols and none of them is eligible
NothingEligible ==
    /\ args.op \in {"reinvest", "rebalance"}
    /\ SourceOfCall.err = ""
    /\ TargetOfCall # <<>>
    /\ EligibleOfCall = <<>>

\* C14 (as the specification states it): when the current portfolio is empty or
\* worth nothing, or no target symbol is eligible after the filters, rebalance,
\* reinvest and liquidate return without raising and issue no order.
C14_DataUnavailableIsNoOp ==
    (pc # "idle" /\ (NothingHeld \/ NothingEligible))
    => /\ orders = <<>>
       /\ result.outcome # "raised"

\* C15: in every run, no buy order precedes a sell order, and when the first
\* buy order is issued every sell order of the plan has been issued and has
\* returned.
C15_SellsBeforeBuys ==
    /\ \A i, j \in DOMAIN orders :
            (orders[i].side = "BUY" /\ orders[j].side = "SELL") => j < i
    /\ Side("BUY") # <<>>
        => /\ Pending(plan.trades.liquidate_trades, exec.sold) = <<>>
           /\ Len(Side("SELL")) = Len(NonSelfTrades(plan.trades.liquidate_trades))
           /\ \A i \in DOMAIN Side("SELL") : Side("SELL")[i].err = ""

\* a live run that sold two holdings and then bought
C15_Witness ==
    /\ args.live_run
    /\ Len(Side("SELL")) = 2
    /\ Len(Side("BUY")) = 1
    /\ orders[3].side = "BUY"
    /\ orders[1].placed /\ orders[2].placed /\ orders[3].placed

\* C16 (as the specification states it): executing a trade list issues no order
\* for a self-trade, and the liquidity pool it returns is the sum of the
\* self-trade amounts plus the sum of the amounts the trade primitive returned
\* for the real trades; planned amounts of real trades are not counted.
C16_PoolIsSelfPlusRealized ==
    /\ \A i \in DOMAIN orders : orders[i].sym # orders[i].base
    /\ exec.rescaled
        => exec.liquidated_amount =
                RAdd(RSum(Quants(SelfTrades(plan.trades.liquidate_trades))),
                     RSum(Map1(Side("SELL"), LAMBDA o : o.ret)))

\* the run has liquidated and come to the rescaling of lines 152-154 with
\* nothing planned to invest and a positive liquidity pool
NothingToInvestIn ==
    /\ plan.outcome = "update"
    /\ exec.rescaled \/ result.err = "ZeroDivisionError"
    /\ RSum(Quants(plan.trades.invest_trades)) = Zero
    /\ RLt(Zero, exec.liquidated_amount)

\* C17 (as the specification states it): such a run ends with an error that
\* names the inconsistency; it neither divides by zero nor goes on and
\* completes with the liquidated funds left uninvested.
C17_NothingToInvestInIsSurfaced ==
    NothingToInvestIn
    => /\ pc = "done"
       /\ result.outcome = "raised"
       /\ result.err # "ZeroDivisionError"

\* the symbols of the portfolio ascend strictly: sorted, and no symbol twice
StrictlySorted(portfolio) ==
    \A i \in 1..(Len(portfolio) - 1) : StrLess(portfolio[i].sym, portfolio[i + 1].sym)

\* C18 (as the specification states it): in every call of an entry point, where
\* the Differ pairs the target with the current entries both portfolios are
\* sorted by symbol without a duplicate and list the same symbols, so every
\* Diff Entry is its target value less the current value of the same symbol.
C18_AlignedPortfolios ==
    plan.differed
    => /\ StrictlySorted(plan.diff.target)
       /\ StrictlySorted(plan.diff.current)
       /\ Symbols(plan.diff.target) = Symbols(plan.diff.current)
       /\ Len(plan.diff.diff_portfolio) = Len(plan.diff.target)
       /\ \A i \in DOMAIN plan.diff.diff_portfolio :
            /\ plan.diff.diff_portfolio[i].sym = plan.diff.current[i].sym
            /\ plan.diff.diff_portfolio[i].val =
                    RSub(plan.diff.target[i].val, plan.diff.current[i].val)

\* The de-leveraged symbol of a symbol, as the specification describes it: the
\* symbol without its UP or DOWN mark.  IndexFund.leverage calls it as
\* exchange.getDeleveragizedSymbol (line 343); BinanceClient does not define it.
getDeleveragizedSymbol(symbol) == SelectSeq(symbol, LAMBDA t : t \notin {"UP", "DOWN"})

\* leverage in mode liquidate, without target and filters, on a source
\* portfolio that holds symbols whose de-leveraged symbol is the symbol itself
HoldsPlainSymbols ==
    /\ args.op = "leverage"
    /\ args.mode = "liquidate"
    /\ args.portfolio_none
    /\ NoFilters
    /\ SourceOfCall.err = ""
    /\ \E x \in Range(SourceOfCall.val) : getDeleveragizedSymbol(x.sym) = x.sym

\* C19 (as the specification states it): such a symbol is left out of the
\* transformation, which goes on without it: no order sells or buys the symbol,
\* the target has no entry for it, and the call does not fail on it.
C19_PlainSymbolIsExcluded ==
    (HoldsPlainSymbols /\ pc = "done")
    => /\ \A i \in DOMAIN orders :
            getDeleveragizedSymbol(orders[i].sym) # orders[i].sym
       /\ \A x \in Range(plan.lev_target) : getDeleveragizedSymbol(x.sym) # x.sym
       /\ result.err # "AttributeError"

\* C20: in every call of rebalance, reinvest or liquidate, no sell and no buy
\* order trades a symbol of do_not_alter, and the total value the call
\* redistributes counts no holding of a do_not_alter symbol.
C20_DoNotAlterIsLeftAlone ==
    args.op \in {"reinvest", "rebalance", "liquidate"}
    => /\ \A i \in DOMAIN orders : orders[i].sym \notin Range(args.do_not_alter)
       /\ \A x \in Range(plan.current_portfolio) : x.sym \notin Range(args.do_not_alter)
       /\ plan.total_value # Zero
            => plan.total_value = getTotalWorthPortfolio(SelectedOfCall)

\* a live reinvest that leaves the BTC holding alone and trades the ETH one
C20_Witness ==
    /\ args.op = "reinvest"
    /\ args.do_not_alter = <<BTC>>
    /\ args.live_run
    /\ \E x \in Range(getBalanceUsd(client).val) : x.sym = BTC
    /\ plan.total_value = Int2Rat(500)
    /\ Len(orders) = 2
    /\ orders[1].placed /\ orders[2].placed
    /\ pc = "done"
    /\ result.outcome = "returned"

====
